---- MODULE Spec2Model ----
(***************************************************************************)
(* Classic-games: the game logic of the four React components              *)
(*   src/src/games/TicTacToe.tsx   (Board engine + minimax AI)             *)
(*   src/unnamed/part_001          (Hangman, lines 1-327; Pacman, 328-566) *)
(*   src/src/games/Snake.tsx       (Snake engine)                          *)
(* Every component keeps its state in useState cells.  An event handler or *)
(* timer callback, the re-render it causes and the effects that re-render  *)
(* runs are one atomic step of the model.                                  *)
(***************************************************************************)
EXTENDS Integers, Sequences, FiniteSets, TLC

VARIABLES
  \* TicTacToe.tsx useState cells
  board, currentPlayer, winner, gameMode, difficulty, stats, winningLine,
  \* the pending setTimeout of the AI effect, with the render it closed over
  aiTimer,
  \* argument and result of one getAIMove call on the hard strategy
  squares, aiMove,
  \* Pacman (part_001) useState cells: direction, score and gameOver are named
  \* pacmanDirection, pacmanScore and pacmanGameOver here
  pacman, ghosts, pacmanDirection, pacmanScore, dots, pacmanGameOver, gameWon,
  \* number of interval callbacks run so far
  pacmanTicks,
  \* Hangman (part_001) useState cells: score is named hangmanScore here
  category, currentWord, guessedLetters, remainingTries, gameStatus,
  hangmanScore, highScore, streak,
  \* number of initializeGame calls after the one of the mount effect
  hangmanRounds,
  \* Snake.tsx useState cells: direction, gameOver and score are named
  \* snakeDirection, snakeGameOver and snakeScore here
  snake, snakeDirection, food, snakeGameOver, snakeScore, isPaused

boardVars == <<board, currentPlayer, winner, gameMode, difficulty, stats, winningLine, aiTimer>>
aiVars == <<squares, aiMove>>
chaseVars == <<pacman, ghosts, pacmanDirection, pacmanScore, dots, pacmanGameOver, gameWon, pacmanTicks>>
wordVars == <<category, currentWord, guessedLetters, remainingTries, gameStatus, hangmanScore, highScore, streak, hangmanRounds>>
snakeVars == <<snake, snakeDirection, food, snakeGameOver, snakeScore, isPaused>>
vars == <<boardVars, aiVars, chaseVars, wordVars, snakeVars>>

(***************************************************************************)
(* Bounds of the model                                                     *)
(***************************************************************************)
\* Human clicks are accepted by the model while fewer than MaxGames results
\* are recorded in stats.
MaxGames == 1
\* Largest cell index a play command may carry (cells are 0..8).
MaxIndex == 9
\* Interval callbacks of the Pacman component the model runs.
MaxPacmanTicks == 2
\* Letter buttons the model presses: the first KeyCount letters of Keys.
KeyCount == 8
\* Words drawn by initializeGame after the first one.
MaxRounds == 1
\* The snake eats while it has fewer than MaxSnakeLength segments.
MaxSnakeLength == 2
\* generateFood draws the cells (15,15) .. (15 + FoodSpan, 15).
FoodSpan == 1

(***************************************************************************)
(* TicTacToe.tsx                                                           *)
(***************************************************************************)
null == "null"
\* what reading a missing array element yields
undefined == "undefined"

WINNING_COMBINATIONS ==
  << <<0, 1, 2>>, <<3, 4, 5>>, <<6, 7, 8>>,
     <<0, 3, 6>>, <<1, 4, 7>>, <<2, 5, 8>>,
     <<0, 4, 8>>, <<2, 4, 6>> >>

\* Array(9).fill(null)
EmptyBoard == [i \in 0..8 |-> null]

\* squares[i] for any index i: undefined outside the array
At(sq, i) == IF i \in DOMAIN sq THEN sq[i] ELSE undefined

\* JavaScript truthiness of a cell value
Truthy(v) == v # null /\ v # undefined

\* arr[index] = mark on a copy: the array grows to index + 1, new holes undefined
SetAt(sq, index, mark) ==
  LET n == Cardinality(DOMAIN sq)
      last == IF index >= n THEN index ELSE n - 1
  IN [k \in 0..last |-> IF k = index THEN mark ELSE At(sq, k)]

LineWon(sq, k) ==
  LET line == WINNING_COMBINATIONS[k]
  IN /\ Truthy(sq[line[1]])
     /\ sq[line[1]] = sq[line[2]]
     /\ sq[line[1]] = sq[line[3]]

\* the for-loop of checkWinner: index of the first complete line, 0 if none
FirstLine(sq) ==
  IF LineWon(sq, 1) THEN 1 ELSE IF LineWon(sq, 2) THEN 2
  ELSE IF LineWon(sq, 3) THEN 3 ELSE IF LineWon(sq, 4) THEN 4
  ELSE IF LineWon(sq, 5) THEN 5 ELSE IF LineWon(sq, 6) THEN 6
  ELSE IF LineWon(sq, 7) THEN 7 ELSE IF LineWon(sq, 8) THEN 8 ELSE 0

\* returns <<winner or "Draw" or null, line or null>>; a null line is << >>
checkWinner(sq) ==
  LET k == FirstLine(sq)
  IN IF k # 0
     THEN <<sq[WINNING_COMBINATIONS[k][1]], WINNING_COMBINATIONS[k]>>
     ELSE <<IF \A i \in DOMAIN sq : sq[i] # null THEN "Draw" ELSE null, << >> >>

\* indices of the null cells, increasing
getEmptySquares(sq) ==
  SelectSeq([k \in 1..Cardinality(DOMAIN sq) |-> k - 1], LAMBDA i : sq[i] = null)

\* stand-ins for -Infinity and Infinity: beyond every score (scores are in -10..10)
NegInfinity == -1000
PosInfinity == 1000

MathMax(a, b) == IF a >= b THEN a ELSE b
MathMin(a, b) == IF a <= b THEN a ELSE b

RECURSIVE minimax(_, _, _), MaximizingLoop(_, _, _, _, _), MinimizingLoop(_, _, _, _, _)
RECURSIVE MinimizingLoopMax(_, _, _, _, _)

\* for (const move of emptySquares) in the isMaximizing branch, from position k
MaximizingLoop(sq, depth, emptySquares, k, bestScore) ==
  IF k > Len(emptySquares) THEN bestScore
  ELSE LET score == minimax([sq EXCEPT ![emptySquares[k]] = "O"], depth + 1, FALSE)
       IN MaximizingLoop(sq, depth, emptySquares, k + 1, MathMax(bestScore, score))

\* MinimizingLoop with Math.max for Math.min: the opponent is taken to help the AI
MinimizingLoopMax(sq, depth, emptySquares, k, bestScore) ==
  IF k > Len(emptySquares) THEN bestScore
  ELSE LET score == minimax([sq EXCEPT ![emptySquares[k]] = "X"], depth + 1, TRUE)
       IN MinimizingLoopMax(sq, depth, emptySquares, k + 1,
                            IF bestScore = PosInfinity THEN score ELSE MathMax(bestScore, score))

\* for (const move of emptySquares) in the minimizing branch, from position k
MinimizingLoop(sq, depth, emptySquares, k, bestScore) ==
  IF k > Len(emptySquares) THEN bestScore
  ELSE LET score == minimax([sq EXCEPT ![emptySquares[k]] = "X"], depth + 1, TRUE)
       IN MinimizingLoop(sq, depth, emptySquares, k + 1, MathMin(bestScore, score))

minimax(sq, depth, isMaximizing) ==
  LET result == checkWinner(sq)[1]
  IN IF result = "O" THEN 10 - depth
     ELSE IF result = "X" THEN depth - 10
     ELSE IF result = "Draw" THEN 0
     ELSE IF isMaximizing
          THEN MaximizingLoop(sq, depth, getEmptySquares(sq), 1, NegInfinity)
          ELSE MinimizingLoop(sq, depth, getEmptySquares(sq), 1, PosInfinity)

RECURSIVE HardLoop(_, _, _, _, _), HardLoopLastBest(_, _, _, _, _)
\* HardLoop with score >= bestScore: the last of the best moves is kept
HardLoopLastBest(sq, emptySquares, k, bestScore, bestMove) ==
  IF k > Len(emptySquares) THEN bestMove
  ELSE LET move == emptySquares[k]
           score == minimax([sq EXCEPT ![move] = "O"], 0, FALSE)
       IN IF score >= bestScore
          THEN HardLoopLastBest(sq, emptySquares, k + 1, score, move)
          ELSE HardLoopLastBest(sq, emptySquares, k + 1, bestScore, bestMove)

\* the for-loop of getAIMove (hard strategy), from position k
HardLoop(sq, emptySquares, k, bestScore, bestMove) ==
  IF k > Len(emptySquares) THEN bestMove
  ELSE LET move == emptySquares[k]
           score == minimax([sq EXCEPT ![move] = "O"], 0, FALSE)
       IN IF score > bestScore
          THEN HardLoop(sq, emptySquares, k + 1, score, move)
          ELSE HardLoop(sq, emptySquares, k + 1, bestScore, bestMove)

\* HardMove with bestMove never updated
FirstEmptyMove(sq) == getEmptySquares(sq)[1]

\* getAIMove past the two random branches
HardMove(sq) ==
  LET emptySquares == getEmptySquares(sq)
  IN HardLoop(sq, emptySquares, 1, NegInfinity, emptySquares[1])

(* minimax and getAIMove write the array they are given: squares[move] = mark *)
(* before the recursive call, squares[move] = null after it.  The operators   *)
(* below give the content of that array when the call returns.  The test      *)
(* undone = undone has the array of one iteration computed before the next    *)
(* iteration starts, as in the code; it is always true.                       *)
RECURSIVE minimaxSquares(_, _, _), MaximizingLoopSquares(_, _, _, _)
RECURSIVE MinimizingLoopSquares(_, _, _, _)

\* the array after the isMaximizing loop, run from position k
MaximizingLoopSquares(sq, depth, emptySquares, k) ==
  IF k > Len(emptySquares) THEN sq
  ELSE LET move == emptySquares[k]
           called == minimaxSquares([sq EXCEPT ![move] = "O"], depth + 1, FALSE)
           undone == [called EXCEPT ![move] = null]
       IN IF undone = undone
          THEN MaximizingLoopSquares(undone, depth, emptySquares, k + 1)
          ELSE sq

\* the array after the minimizing loop, run from position k
MinimizingLoopSquares(sq, depth, emptySquares, k) ==
  IF k > Len(emptySquares) THEN sq
  ELSE LET move == emptySquares[k]
           called == minimaxSquares([sq EXCEPT ![move] = "X"], depth + 1, TRUE)
           undone == [called EXCEPT ![move] = null]
       IN IF undone = undone
          THEN MinimizingLoopSquares(undone, depth, emptySquares, k + 1)
          ELSE sq

\* the array after minimax(squares, depth, isMaximizing)
minimaxSquares(sq, depth, isMaximizing) ==
  IF checkWinner(sq)[1] # null THEN sq
  ELSE IF isMaximizing
       THEN MaximizingLoopSquares(sq, depth, getEmptySquares(sq), 1)
       ELSE MinimizingLoopSquares(sq, depth, getEmptySquares(sq), 1)

RECURSIVE HardLoopSquares(_, _, _), HardLoopSquaresNoUndo(_, _, _)
\* HardLoopSquares without squares[move] = null
HardLoopSquaresNoUndo(sq, emptySquares, k) ==
  IF k > Len(emptySquares) THEN sq
  ELSE LET move == emptySquares[k]
           called == minimaxSquares([sq EXCEPT ![move] = "O"], 0, FALSE)
       IN IF called = called
          THEN HardLoopSquaresNoUndo(called, emptySquares, k + 1)
          ELSE sq

\* the array after the for-loop of getAIMove, run from position k
HardLoopSquares(sq, emptySquares, k) ==
  IF k > Len(emptySquares) THEN sq
  ELSE LET move == emptySquares[k]
           called == minimaxSquares([sq EXCEPT ![move] = "O"], 0, FALSE)
           undone == [called EXCEPT ![move] = null]
       IN IF undone = undone
          THEN HardLoopSquares(undone, emptySquares, k + 1)
          ELSE sq

\* the array after getAIMove(squares), hard strategy
HardMoveSquares(sq) == HardLoopSquares(sq, getEmptySquares(sq), 1)

\* emptySquares[Math.floor(Math.random() * emptySquares.length)]: any of them
RandomMoves(sq) ==
  LET emptySquares == getEmptySquares(sq)
  IN {emptySquares[k] : k \in 1..Len(emptySquares)}

\* the set of values getAIMove(squares) can return on difficulty diff
getAIMove(sq, diff) ==
  IF diff = "easy" THEN RandomMoves(sq)
  ELSE IF diff = "medium" THEN RandomMoves(sq) \cup {HardMove(sq)}
  ELSE {HardMove(sq)}

updateStats(prev, result) ==
  IF result = "Draw" THEN [prev EXCEPT !.draws = prev.draws + 1]
  ELSE IF result = "X" THEN [prev EXCEPT !.wins = prev.wins + 1]
  ELSE [prev EXCEPT !.losses = prev.losses + 1]

\* the useState cells of the component as one value
BoardState ==
  [board |-> board, currentPlayer |-> currentPlayer, winner |-> winner,
   gameMode |-> gameMode, difficulty |-> difficulty, stats |-> stats,
   winningLine |-> winningLine]

\* handleClick without the "|| winner" of its guard
handleClickNoWinnerGuard(r, cur, index) ==
  IF Truthy(At(r.board, index)) THEN cur
  ELSE LET newBoard == SetAt(r.board, index, r.currentPlayer)
           res == checkWinner(newBoard)
       IN IF res[1] # null
          THEN [cur EXCEPT !.board = newBoard, !.winner = res[1],
                           !.winningLine = res[2],
                           !.stats = updateStats(cur.stats, res[1])]
          ELSE [cur EXCEPT !.board = newBoard,
                           !.currentPlayer = IF r.currentPlayer = "X" THEN "O" ELSE "X"]

\* handleClick(index) of the render r (the cells it closed over), run when the
\* component's cells hold cur: the setters overwrite, updateStats updates cur.stats
handleClick(r, cur, index) ==
  IF Truthy(At(r.board, index)) \/ r.winner # null THEN cur
  ELSE LET newBoard == SetAt(r.board, index, r.currentPlayer)
           res == checkWinner(newBoard)
       IN IF res[1] # null
          THEN [cur EXCEPT !.board = newBoard, !.winner = res[1],
                           !.winningLine = res[2],
                           !.stats = updateStats(cur.stats, res[1])]
          ELSE [cur EXCEPT !.board = newBoard,
                           !.currentPlayer = IF r.currentPlayer = "X" THEN "O" ELSE "X"]

\* resetGame without setWinningLine(null)
resetGameKeepsLine(cur) ==
  [cur EXCEPT !.board = EmptyBoard, !.currentPlayer = "X", !.winner = null]

\* resetGame: the setters it calls
resetGame(cur) ==
  [cur EXCEPT !.board = EmptyBoard, !.currentPlayer = "X", !.winner = null,
              !.winningLine = << >>]

\* the effect on [currentPlayer, gameMode] after a render that turned old into new:
\* when a dependency changed the cleanup clears the timer and the effect may set
\* a new one whose callback closes over the new render
AIEffect(old, new, timer) ==
  IF new.currentPlayer # old.currentPlayer \/ new.gameMode # old.gameMode
  THEN IF new.gameMode = "ai" /\ new.currentPlayer = "O" /\ new.winner = null
       THEN <<new>> ELSE << >>
  ELSE timer

StatsTotal == stats.wins + stats.losses + stats.draws

\* commit the render new, run the effect
Commit(new, timer) ==
  /\ board' = new.board
  /\ currentPlayer' = new.currentPlayer
  /\ winner' = new.winner
  /\ gameMode' = new.gameMode
  /\ difficulty' = new.difficulty
  /\ stats' = new.stats
  /\ winningLine' = new.winningLine
  /\ aiTimer' = AIEffect(BoardState, new, timer)

\* the human clicks the button of cell index (one button per element of board)
HumanClick(index) ==
  /\ StatsTotal < MaxGames
  /\ index \in DOMAIN board
  /\ Commit(handleClick(BoardState, BoardState, index), aiTimer)
  /\ UNCHANGED <<aiVars, chaseVars, wordVars, snakeVars>>

\* the 500 ms timer of the AI effect fires
AITimerFire ==
  /\ aiTimer # << >>
  /\ \E move \in getAIMove(aiTimer[1].board, aiTimer[1].difficulty) :
       Commit(handleClick(aiTimer[1], BoardState, move), << >>)
  /\ UNCHANGED <<aiVars, chaseVars, wordVars, snakeVars>>

\* "Start New Game"
ResetGameClick ==
  /\ Commit(resetGame(BoardState), aiTimer)
  /\ UNCHANGED <<aiVars, chaseVars, wordVars, snakeVars>>

\* "Reset Stats"
resetStats ==
  /\ Commit([BoardState EXCEPT !.stats = [wins |-> 0, losses |-> 0, draws |-> 0]], aiTimer)
  /\ UNCHANGED <<aiVars, chaseVars, wordVars, snakeVars>>

\* the mode select: setGameMode then resetGame
SetGameMode(mode) ==
  /\ mode # gameMode
  /\ Commit(resetGame([BoardState EXCEPT !.gameMode = mode]), aiTimer)
  /\ UNCHANGED <<aiVars, chaseVars, wordVars, snakeVars>>

\* the difficulty select, rendered in AI mode only: setDifficulty then resetGame
SetDifficulty(d) ==
  /\ gameMode = "ai"
  /\ d # difficulty
  /\ Commit(resetGame([BoardState EXCEPT !.difficulty = d]), aiTimer)
  /\ UNCHANGED <<aiVars, chaseVars, wordVars, snakeVars>>

(***************************************************************************)
(* Pacman (part_001, lines 328-566)                                        *)
(***************************************************************************)
PACMAN_GRID_SIZE == 15

Pos(px, py) == [x |-> px, y |-> py]

INITIAL_PACMAN == Pos(7, 11)
INITIAL_GHOSTS == <<Pos(1, 1), Pos(13, 1), Pos(1, 13), Pos(13, 13)>>

WALLS ==
  \* Outer walls
  {Pos(i, 0) : i \in 0..PACMAN_GRID_SIZE - 1}
    \cup {Pos(i, PACMAN_GRID_SIZE - 1) : i \in 0..PACMAN_GRID_SIZE - 1}
    \cup {Pos(0, i) : i \in 0..PACMAN_GRID_SIZE - 1}
    \cup {Pos(PACMAN_GRID_SIZE - 1, i) : i \in 0..PACMAN_GRID_SIZE - 1}
  \* Inner obstacles
    \cup {Pos(3, 3), Pos(4, 3), Pos(5, 3), Pos(9, 3), Pos(10, 3), Pos(11, 3),
          Pos(3, 11), Pos(4, 11), Pos(5, 11), Pos(9, 11), Pos(10, 11), Pos(11, 11),
          Pos(7, 5), Pos(7, 6), Pos(7, 7), Pos(7, 9), Pos(7, 8)}

isWall(pos) == pos \in WALLS

\* the array initializeDots builds (its positions are pairwise distinct, so the
\* array is modelled by the set of its elements)
initializeDots ==
  {Pos(px, py) : px \in 1..PACMAN_GRID_SIZE - 2, py \in 1..PACMAN_GRID_SIZE - 2} \ WALLS

\* MovePacman without the isWall test
MovePacmanThroughWalls(current, dir) ==
  IF dir = "up" THEN Pos(current.x, current.y - 1)
  ELSE IF dir = "down" THEN Pos(current.x, current.y + 1)
  ELSE IF dir = "left" THEN Pos(current.x - 1, current.y)
  ELSE Pos(current.x + 1, current.y)

\* the setPacman updater of the interval callback
MovePacman(current, dir) ==
  LET newPos == IF dir = "up" THEN Pos(current.x, current.y - 1)
                ELSE IF dir = "down" THEN Pos(current.x, current.y + 1)
                ELSE IF dir = "left" THEN Pos(current.x - 1, current.y)
                ELSE Pos(current.x + 1, current.y)
  IN IF isWall(newPos) THEN current ELSE newPos

\* possibleMoves of one ghost
possibleMoves(ghost) ==
  {Pos(ghost.x + 1, ghost.y), Pos(ghost.x - 1, ghost.y),
   Pos(ghost.x, ghost.y + 1), Pos(ghost.x, ghost.y - 1)} \ WALLS

\* randomMove || ghost: any possible move, the ghost itself when there is none
GhostChoices(ghost) ==
  IF possibleMoves(ghost) = {} THEN {ghost} ELSE possibleMoves(ghost)

RECURSIVE MapChoices(_, _)
\* currentGhosts.map over the ghosts from position k on: every sequence of choices
MapChoices(currentGhosts, k) ==
  IF k > Len(currentGhosts) THEN {<< >>}
  ELSE {<<g>> \o rest : g \in GhostChoices(currentGhosts[k]),
                        rest \in MapChoices(currentGhosts, k + 1)}

\* the values the setGhosts updater of moveGhosts can return
moveGhosts(currentGhosts) == MapChoices(currentGhosts, 1)

\* PacmanEffect testing dots.length, not newDots.length, for the win
PacmanEffectOldLength(st) ==
  LET collected ==
        IF st.pacman \in st.dots
        THEN [st EXCEPT !.dots = st.dots \ {st.pacman},
                        !.score = st.score + 10,
                        !.gameWon = IF st.dots = {} THEN TRUE ELSE st.gameWon]
        ELSE st
  IN IF \E k \in DOMAIN st.ghosts : st.ghosts[k] = st.pacman
     THEN [collected EXCEPT !.gameOver = TRUE]
     ELSE collected

\* PacmanEffect with the collision check in an else branch of the win
PacmanEffectElseCollision(st) ==
  LET collected ==
        IF st.pacman \in st.dots
        THEN [st EXCEPT !.dots = st.dots \ {st.pacman},
                        !.score = st.score + 10,
                        !.gameWon = IF st.dots \ {st.pacman} = {} THEN TRUE ELSE st.gameWon]
        ELSE st
  IN IF ~collected.gameWon /\ \E k \in DOMAIN st.ghosts : st.ghosts[k] = st.pacman
     THEN [collected EXCEPT !.gameOver = TRUE]
     ELSE collected

\* PacmanEffect without setScore(s => s + 10)
PacmanEffectNoScore(st) ==
  LET collected ==
        IF st.pacman \in st.dots
        THEN [st EXCEPT !.dots = st.dots \ {st.pacman},
                        !.gameWon = IF st.dots \ {st.pacman} = {} THEN TRUE ELSE st.gameWon]
        ELSE st
  IN IF \E k \in DOMAIN st.ghosts : st.ghosts[k] = st.pacman
     THEN [collected EXCEPT !.gameOver = TRUE]
     ELSE collected

\* the effect on [pacman, ghosts, dots], run on the render st: dot collection,
\* then the ghost collision check.  A second run, on the render it causes,
\* finds no dot under pacman and sets gameOver to the same value.
PacmanEffect(st) ==
  LET collected ==
        IF st.pacman \in st.dots
        THEN [st EXCEPT !.dots = st.dots \ {st.pacman},
                        !.score = st.score + 10,
                        !.gameWon = IF st.dots \ {st.pacman} = {} THEN TRUE ELSE st.gameWon]
        ELSE st
  IN IF \E k \in DOMAIN st.ghosts : st.ghosts[k] = st.pacman
     THEN [collected EXCEPT !.gameOver = TRUE]
     ELSE collected

PacmanState ==
  [pacman |-> pacman, ghosts |-> ghosts, direction |-> pacmanDirection,
   score |-> pacmanScore, dots |-> dots, gameOver |-> pacmanGameOver,
   gameWon |-> gameWon]

\* resetGame of Pacman: the setters it calls
pacmanResetGame(cur) ==
  [cur EXCEPT !.pacman = INITIAL_PACMAN, !.ghosts = INITIAL_GHOSTS,
              !.direction = "right", !.score = 0, !.gameOver = FALSE,
              !.gameWon = FALSE, !.dots = initializeDots]

CommitPacman(new) ==
  /\ pacman' = new.pacman
  /\ ghosts' = new.ghosts
  /\ pacmanDirection' = new.direction
  /\ pacmanScore' = new.score
  /\ dots' = new.dots
  /\ pacmanGameOver' = new.gameOver
  /\ gameWon' = new.gameWon

\* PacmanTick with the interval left running once a flag is set
PacmanTickAlways ==
  /\ pacmanTicks < MaxPacmanTicks
  /\ \E newGhosts \in moveGhosts(ghosts) :
       CommitPacman(PacmanEffect([PacmanState EXCEPT
                      !.pacman = MovePacman(pacman, pacmanDirection),
                      !.ghosts = newGhosts]))
  /\ pacmanTicks' = pacmanTicks + 1
  /\ UNCHANGED <<boardVars, aiVars, wordVars, snakeVars>>

\* one callback of the 200 ms interval, which runs while neither flag is set
PacmanTick ==
  /\ ~pacmanGameOver /\ ~gameWon
  /\ pacmanTicks < MaxPacmanTicks
  /\ \E newGhosts \in moveGhosts(ghosts) :
       CommitPacman(PacmanEffect([PacmanState EXCEPT
                      !.pacman = MovePacman(pacman, pacmanDirection),
                      !.ghosts = newGhosts]))
  /\ pacmanTicks' = pacmanTicks + 1
  /\ UNCHANGED <<boardVars, aiVars, wordVars, snakeVars>>

\* handleKeyPress: an arrow key
PacmanKeyPress(dir) ==
  /\ CommitPacman([PacmanState EXCEPT !.direction = dir])
  /\ UNCHANGED <<pacmanTicks, boardVars, aiVars, wordVars, snakeVars>>

\* "Play Again", rendered when gameOver or gameWon
PacmanPlayAgain ==
  /\ pacmanGameOver \/ gameWon
  /\ CommitPacman(PacmanEffect(pacmanResetGame(PacmanState)))
  /\ UNCHANGED <<pacmanTicks, boardVars, aiVars, wordVars, snakeVars>>

\* the component once mounted: the useState values, dots set by the mount effect
\* and the dot under INITIAL_PACMAN collected by the effect on [pacman, ghosts, dots]
MountedPacman ==
  PacmanEffect([pacman |-> INITIAL_PACMAN, ghosts |-> INITIAL_GHOSTS,
                direction |-> "right", score |-> 0, dots |-> initializeDots,
                gameOver |-> FALSE, gameWon |-> FALSE])

PacmanIs(st) ==
  /\ pacman = st.pacman
  /\ ghosts = st.ghosts
  /\ pacmanDirection = st.direction
  /\ pacmanScore = st.score
  /\ dots = st.dots
  /\ pacmanGameOver = st.gameOver
  /\ gameWon = st.gameWon

InitPacman == PacmanIs(MountedPacman) /\ pacmanTicks = 0

\* Late in a game: pacman stands at (7,13) having eaten every dot but those in
\* left, the ghost that started at (1,13) is at (3,13) and the others are in
\* their corners.  The program reaches it when pacman eats the other dots
\* (waiting against a wall when needed) while the ghosts, which step to any
\* free neighbour, keep out of its way.
LateGame(left) ==
  [pacman |-> Pos(7, 13),
   ghosts |-> <<Pos(1, 1), Pos(13, 1), Pos(3, 13), Pos(13, 13)>>,
   direction |-> "left",
   score |-> 10 * Cardinality(initializeDots \ left),
   dots |-> left, gameOver |-> FALSE, gameWon |-> FALSE]

InitPacmanLate ==
  /\ \E left \in {{Pos(5, 13)}, {Pos(6, 13)}, {Pos(5, 13), Pos(1, 1)}} :
       PacmanIs(LateGame(left))
  /\ pacmanTicks = 0

NextPacman ==
  \/ PacmanTick
  \/ \E dir \in {"up", "down", "left", "right"} : PacmanKeyPress(dir)
  \/ PacmanPlayAgain

(***************************************************************************)
(* Hangman (part_001, lines 1-327)                                         *)
(***************************************************************************)
\* a word is the sequence of its letters; the hint, which is only displayed,
\* is left out
WORD_LIST ==
  [animals |->
     <<[word |-> <<"E", "L", "E", "P", "H", "A", "N", "T">>, difficulty |-> "easy"],
       [word |-> <<"P", "E", "N", "G", "U", "I", "N">>, difficulty |-> "easy"],
       [word |-> <<"G", "I", "R", "A", "F", "F", "E">>, difficulty |-> "easy"],
       [word |-> <<"P", "L", "A", "T", "Y", "P", "U", "S">>, difficulty |-> "medium"],
       [word |-> <<"C", "H", "A", "M", "E", "L", "E", "O", "N">>, difficulty |-> "hard"]>>,
   celebrities |->
     <<[word |-> <<"B", "E", "Y", "O", "N", "C", "E">>, difficulty |-> "easy"],
       [word |-> <<"D", "I", "C", "A", "P", "R", "I", "O">>, difficulty |-> "medium"],
       [word |-> <<"S", "P", "I", "E", "L", "B", "E", "R", "G">>, difficulty |-> "medium"],
       [word |-> <<"Z", "E", "N", "D", "A", "Y", "A">>, difficulty |-> "easy"],
       [word |-> <<"S", "C", "H", "W", "A", "R", "Z", "E", "N", "E", "G", "G", "E", "R">>, difficulty |-> "hard"]>>,
   movies |->
     <<[word |-> <<"I", "N", "C", "E", "P", "T", "I", "O", "N">>, difficulty |-> "medium"],
       [word |-> <<"A", "V", "A", "T", "A", "R">>, difficulty |-> "easy"],
       [word |-> <<"I", "N", "T", "E", "R", "S", "T", "E", "L", "L", "A", "R">>, difficulty |-> "hard"],
       [word |-> <<"J", "A", "W", "S">>, difficulty |-> "easy"],
       [word |-> <<"P", "U", "L", "P", "F", "I", "C", "T", "I", "O", "N">>, difficulty |-> "medium"]>>,
   sports |->
     <<[word |-> <<"B", "A", "S", "K", "E", "T", "B", "A", "L", "L">>, difficulty |-> "medium"],
       [word |-> <<"T", "E", "N", "N", "I", "S">>, difficulty |-> "easy"],
       [word |-> <<"V", "O", "L", "L", "E", "Y", "B", "A", "L", "L">>, difficulty |-> "medium"],
       [word |-> <<"C", "R", "I", "C", "K", "E", "T">>, difficulty |-> "easy"],
       [word |-> <<"B", "A", "D", "M", "I", "N", "T", "O", "N">>, difficulty |-> "medium"]>>,
   food |->
     <<[word |-> <<"S", "P", "A", "G", "H", "E", "T", "T", "I">>, difficulty |-> "medium"],
       [word |-> <<"S", "U", "S", "H", "I">>, difficulty |-> "easy"],
       [word |-> <<"G", "U", "A", "C", "A", "M", "O", "L", "E">>, difficulty |-> "hard"],
       [word |-> <<"P", "I", "Z", "Z", "A">>, difficulty |-> "easy"],
       [word |-> <<"C", "R", "O", "I", "S", "S", "A", "N", "T">>, difficulty |-> "medium"]>>]

Categories == DOMAIN WORD_LIST

MAX_TRIES == 6

\* the letters of the keyboard in the order the model takes them
Keys ==
  <<"P", "E", "N", "G", "U", "I", "A", "T", "S", "L", "Y", "J", "W",
    "B", "C", "D", "F", "H", "K", "M", "O", "Q", "R", "V", "X", "Z">>

Letters == {Keys[k] : k \in 1..KeyCount}

\* the characters of a word
Chars(word) == {word[k] : k \in DOMAIN word}

\* calculateWordScore with Math.floor for Math.round
calculateWordScoreFloor(word, tries, diff) ==
  LET num == IF diff = "easy" THEN 1 ELSE IF diff = "medium" THEN 3 ELSE 2
      den == IF diff = "medium" THEN 2 ELSE 1
  IN (Len(word) * 10 * num * tries) \div (den * MAX_TRIES)

\* Math.round(word.length * 10 * difficultyMultiplier[difficulty] *
\* (remainingTries / MAX_TRIES)), the multiplier 1, 1.5 or 2 taken as num/den;
\* Math.round rounds a half up
calculateWordScore(word, tries, diff) ==
  LET num == IF diff = "easy" THEN 1 ELSE IF diff = "medium" THEN 3 ELSE 2
      den == IF diff = "medium" THEN 2 ELSE 1
      n == Len(word) * 10 * num * tries
      d == den * MAX_TRIES
  IN (2 * n + d) \div (2 * d)

HangmanState ==
  [category |-> category, currentWord |-> currentWord,
   guessedLetters |-> guessedLetters, remainingTries |-> remainingTries,
   gameStatus |-> gameStatus, score |-> hangmanScore, highScore |-> highScore,
   streak |-> streak]

\* guessLetter with isWon tested on guessedLetters, not on newGuessedLetters
guessLetterOldSet(st, letter) ==
  IF st.gameStatus # "playing" THEN st
  ELSE LET newGuessedLetters == st.guessedLetters \cup {letter}
           guessed == [st EXCEPT !.guessedLetters = newGuessedLetters]
       IN IF letter \notin Chars(st.currentWord.word)
          THEN LET newRemainingTries == st.remainingTries - 1
               IN IF newRemainingTries = 0
                  THEN [guessed EXCEPT !.remainingTries = newRemainingTries,
                                       !.gameStatus = "lost", !.streak = 0]
                  ELSE [guessed EXCEPT !.remainingTries = newRemainingTries]
          ELSE LET isWon == \A char \in Chars(st.currentWord.word) : char \in st.guessedLetters
                   wordScore == calculateWordScore(st.currentWord.word, st.remainingTries,
                                                   st.currentWord.difficulty)
               IN IF isWon
                  THEN [guessed EXCEPT !.score = st.score + wordScore,
                                       !.highScore = MathMax(st.highScore, st.score + wordScore),
                                       !.streak = st.streak + 1,
                                       !.gameStatus = "won"]
                  ELSE guessed

\* guessLetter(letter) run on the render st
guessLetter(st, letter) ==
  IF st.gameStatus # "playing" THEN st
  ELSE LET newGuessedLetters == st.guessedLetters \cup {letter}
           guessed == [st EXCEPT !.guessedLetters = newGuessedLetters]
       IN IF letter \notin Chars(st.currentWord.word)
          THEN LET newRemainingTries == st.remainingTries - 1
               IN IF newRemainingTries = 0
                  THEN [guessed EXCEPT !.remainingTries = newRemainingTries,
                                       !.gameStatus = "lost", !.streak = 0]
                  ELSE [guessed EXCEPT !.remainingTries = newRemainingTries]
          ELSE LET isWon == \A char \in Chars(st.currentWord.word) : char \in newGuessedLetters
                   wordScore == calculateWordScore(st.currentWord.word, st.remainingTries,
                                                   st.currentWord.difficulty)
               IN IF isWon
                  THEN [guessed EXCEPT !.score = st.score + wordScore,
                                       !.highScore = MathMax(st.highScore, st.score + wordScore),
                                       !.streak = st.streak + 1,
                                       !.gameStatus = "won"]
                  ELSE guessed

\* the values initializeGame can leave, randomWord being any word of the list
\* initializeGame that also calls setStreak(0)
initializeGameClearsStreak(st) ==
  {[st EXCEPT !.currentWord = WORD_LIST[st.category][k],
              !.guessedLetters = {},
              !.remainingTries = MAX_TRIES,
              !.gameStatus = "playing",
              !.streak = 0] : k \in DOMAIN WORD_LIST[st.category]}

initializeGame(st) ==
  {[st EXCEPT !.currentWord = WORD_LIST[st.category][k],
              !.guessedLetters = {},
              !.remainingTries = MAX_TRIES,
              !.gameStatus = "playing"] : k \in DOMAIN WORD_LIST[st.category]}

CommitHangman(new) ==
  /\ category' = new.category
  /\ currentWord' = new.currentWord
  /\ guessedLetters' = new.guessedLetters
  /\ remainingTries' = new.remainingTries
  /\ gameStatus' = new.gameStatus
  /\ hangmanScore' = new.score
  /\ highScore' = new.highScore
  /\ streak' = new.streak

\* a letter button: the keyboard is rendered while playing, the buttons of the
\* guessed letters are disabled
LetterClick(letter) ==
  /\ gameStatus = "playing"
  /\ letter \notin guessedLetters
  /\ CommitHangman(guessLetter(HangmanState, letter))
  /\ UNCHANGED <<hangmanRounds, boardVars, aiVars, chaseVars, snakeVars>>

\* "Play Again", rendered when the game is won or lost
HangmanPlayAgain ==
  /\ gameStatus # "playing"
  /\ hangmanRounds < MaxRounds
  /\ \E new \in initializeGame(HangmanState) : CommitHangman(new)
  /\ hangmanRounds' = hangmanRounds + 1
  /\ UNCHANGED <<boardVars, aiVars, chaseVars, snakeVars>>

\* the category select: setCategory, then the effect on [category] runs initializeGame
SelectCategory(c) ==
  /\ c # category
  /\ hangmanRounds < MaxRounds
  /\ \E new \in initializeGame([HangmanState EXCEPT !.category = c]) : CommitHangman(new)
  /\ hangmanRounds' = hangmanRounds + 1
  /\ UNCHANGED <<boardVars, aiVars, chaseVars, snakeVars>>

\* "Reset Stats" of Hangman
HangmanResetStats ==
  /\ CommitHangman([HangmanState EXCEPT !.score = 0, !.highScore = 0, !.streak = 0])
  /\ UNCHANGED <<hangmanRounds, boardVars, aiVars, chaseVars, snakeVars>>

\* the component once mounted: the useState values, then initializeGame run by
\* the mount effect
InitHangman ==
  /\ category = "animals"
  /\ \E new \in initializeGame([category |-> "animals",
                                currentWord |-> [word |-> << >>, difficulty |-> "easy"],
                                guessedLetters |-> {}, remainingTries |-> MAX_TRIES,
                                gameStatus |-> "playing", score |-> 0,
                                highScore |-> 0, streak |-> 0]) :
       /\ currentWord = new.currentWord
       /\ guessedLetters = new.guessedLetters
       /\ remainingTries = new.remainingTries
       /\ gameStatus = new.gameStatus
       /\ hangmanScore = new.score
       /\ highScore = new.highScore
       /\ streak = new.streak
  /\ hangmanRounds = 0

\* the other components rest on one word while a game other than Hangman is explored
InitHangmanFixed ==
  /\ InitHangman
  /\ currentWord = WORD_LIST["animals"][1]

NextHangman ==
  \/ \E letter \in Letters : LetterClick(letter)
  \/ HangmanPlayAgain
  \/ \E c \in Categories : SelectCategory(c)
  \/ HangmanResetStats

(***************************************************************************)
(* Snake.tsx                                                               *)
(***************************************************************************)
GRID_SIZE == 20
INITIAL_SNAKE == <<Pos(10, 10)>>
INITIAL_DIRECTION == Pos(1, 0)
\* useState({ x: 15, y: 15 })
InitialFood == Pos(15, 15)

\* the values generateFood can set: Math.floor(Math.random() * GRID_SIZE) is any
\* coordinate of the grid; the model draws the cell of the first food and its
\* FoodSpan right neighbours
generateFood == {Pos(fx, InitialFood.y) : fx \in InitialFood.x..InitialFood.x + FoodSpan}

SnakeState ==
  [snake |-> snake, direction |-> snakeDirection, food |-> food,
   gameOver |-> snakeGameOver, score |-> snakeScore, isPaused |-> isPaused]

\* NewHead without the "+ GRID_SIZE) % GRID_SIZE"
NewHeadNoWrap(currentSnake, dir) ==
  Pos(currentSnake[1].x + dir.x, currentSnake[1].y + dir.y)

\* newHead of moveSnake
NewHead(currentSnake, dir) ==
  Pos((currentSnake[1].x + dir.x + GRID_SIZE) % GRID_SIZE,
      (currentSnake[1].y + dir.y + GRID_SIZE) % GRID_SIZE)

\* currentSnake.some(segment => segment is at pos)
OnSnake(currentSnake, pos) == \E k \in DOMAIN currentSnake : currentSnake[k] = pos

\* newSnake.pop()
Pop(s) == SubSeq(s, 1, Len(s) - 1)

\* moveSnake without newSnake.pop()
moveSnakeNoPop(st, newFood) ==
  IF st.gameOver \/ st.isPaused THEN st
  ELSE LET newHead == NewHead(st.snake, st.direction)
           newSnake == <<newHead>> \o st.snake
       IN IF OnSnake(st.snake, newHead)
          THEN [st EXCEPT !.gameOver = TRUE]
          ELSE IF newHead = st.food
               THEN [st EXCEPT !.snake = newSnake, !.score = st.score + 1,
                               !.food = newFood]
               ELSE [st EXCEPT !.snake = newSnake]

\* moveSnake with the collision tested against the segments that remain after
\* the tail has moved on
moveSnakeTailExcluded(st, newFood) ==
  IF st.gameOver \/ st.isPaused THEN st
  ELSE LET newHead == NewHead(st.snake, st.direction)
           newSnake == <<newHead>> \o st.snake
       IN IF OnSnake(Pop(st.snake), newHead)
          THEN [st EXCEPT !.gameOver = TRUE]
          ELSE IF newHead = st.food
               THEN [st EXCEPT !.snake = newSnake, !.score = st.score + 1,
                               !.food = newFood]
               ELSE [st EXCEPT !.snake = Pop(newSnake)]

\* moveSnake without the collision test
moveSnakeNoSelfCheck(st, newFood) ==
  IF st.gameOver \/ st.isPaused THEN st
  ELSE LET newHead == NewHead(st.snake, st.direction)
           newSnake == <<newHead>> \o st.snake
       IN IF newHead = st.food
          THEN [st EXCEPT !.snake = newSnake, !.score = st.score + 1,
                          !.food = newFood]
          ELSE [st EXCEPT !.snake = Pop(newSnake)]

\* moveSnake run on the render st; newFood is what generateFood draws if called
moveSnake(st, newFood) ==
  IF st.gameOver \/ st.isPaused THEN st
  ELSE LET newHead == NewHead(st.snake, st.direction)
           newSnake == <<newHead>> \o st.snake
       IN IF OnSnake(st.snake, newHead)
          THEN [st EXCEPT !.gameOver = TRUE]
          ELSE IF newHead = st.food
               THEN [st EXCEPT !.snake = newSnake, !.score = st.score + 1,
                               !.food = newFood]
               ELSE [st EXCEPT !.snake = Pop(newSnake)]

\* setDirection without the test for the opposite direction
setDirectionAnyKey(current, newDirection) == newDirection

\* the setDirection updater of handleKeyPress
setDirection(current, newDirection) ==
  IF current.x = -newDirection.x /\ current.y = -newDirection.y
  THEN current ELSE newDirection

\* resetGame of Snake: the setters it calls
snakeResetGame(cur, newFood) ==
  [cur EXCEPT !.snake = INITIAL_SNAKE, !.direction = INITIAL_DIRECTION,
              !.gameOver = FALSE, !.score = 0, !.food = newFood]

CommitSnake(new) ==
  /\ snake' = new.snake
  /\ snakeDirection' = new.direction
  /\ food' = new.food
  /\ snakeGameOver' = new.gameOver
  /\ snakeScore' = new.score
  /\ isPaused' = new.isPaused

\* one callback of the 150 ms interval (it returns at once when the game is over
\* or paused)
SnakeTick ==
  /\ ~snakeGameOver /\ ~isPaused
  /\ NewHead(snake, snakeDirection) = food /\ ~OnSnake(snake, food)
       => Len(snake) < MaxSnakeLength
  /\ \E newFood \in generateFood : CommitSnake(moveSnake(SnakeState, newFood))
  /\ UNCHANGED <<boardVars, aiVars, chaseVars, wordVars>>

ArrowKeys ==
  [ArrowUp |-> Pos(0, -1), ArrowDown |-> Pos(0, 1),
   ArrowLeft |-> Pos(-1, 0), ArrowRight |-> Pos(1, 0)]

\* handleKeyPress: an arrow key
SnakeArrowKey(key) ==
  /\ CommitSnake([SnakeState EXCEPT !.direction = setDirection(snakeDirection, ArrowKeys[key])])
  /\ UNCHANGED <<boardVars, aiVars, chaseVars, wordVars>>

\* handleKeyPress: the space key
SnakeSpaceKey ==
  /\ CommitSnake([SnakeState EXCEPT !.isPaused = ~isPaused])
  /\ UNCHANGED <<boardVars, aiVars, chaseVars, wordVars>>

\* "Play Again", rendered when gameOver
SnakePlayAgain ==
  /\ snakeGameOver
  /\ \E newFood \in generateFood : CommitSnake(snakeResetGame(SnakeState, newFood))
  /\ UNCHANGED <<boardVars, aiVars, chaseVars, wordVars>>

InitSnake ==
  /\ snake = INITIAL_SNAKE
  /\ snakeDirection = INITIAL_DIRECTION
  /\ food = InitialFood
  /\ snakeGameOver = FALSE
  /\ snakeScore = 0
  /\ isPaused = FALSE

NextSnake ==
  \/ SnakeTick
  \/ \E key \in DOMAIN ArrowKeys : SnakeArrowKey(key)
  \/ SnakeSpaceKey
  \/ SnakePlayAgain

InitBoard ==
  /\ board = EmptyBoard
  /\ currentPlayer = "X"
  /\ winner = null
  /\ gameMode = "human"
  /\ difficulty = "medium"
  /\ stats = [wins |-> 0, losses |-> 0, draws |-> 0]
  /\ winningLine = << >>
  /\ aiTimer = << >>

InitAI ==
  /\ squares = EmptyBoard
  /\ aiMove = -1

Init == InitBoard /\ InitAI /\ InitPacman /\ InitHangmanFixed /\ InitSnake

\* The component after the user chose "vs AI" and "Hard" (SetGameMode("ai"),
\* SetDifficulty("hard") from Init).
InitHard ==
  /\ board = EmptyBoard
  /\ currentPlayer = "X"
  /\ winner = null
  /\ gameMode = "ai"
  /\ difficulty = "hard"
  /\ stats = [wins |-> 0, losses |-> 0, draws |-> 0]
  /\ winningLine = << >>
  /\ aiTimer = << >>
  /\ InitAI
  /\ InitPacman
  /\ InitHangmanFixed
  /\ InitSnake

\* the human answers only on X's turn
HumanPlaysX(index) == currentPlayer = "X" /\ HumanClick(index)

Count(sq, mark) == Cardinality({i \in DOMAIN sq : sq[i] = mark})

\* the boards on which getAIMove is called: O to move after alternating plays
\* that X began, no result yet
OTurnBoards ==
  {sq \in [0..8 -> {null, "X", "O"}] :
     /\ Count(sq, "X") = Count(sq, "O") + 1
     /\ checkWinner(sq)[1] = null}

InitSquares ==
  /\ InitBoard
  /\ InitPacman
  /\ InitHangmanFixed
  /\ InitSnake
  /\ squares \in OTurnBoards
  /\ aiMove = -1

\* one call of getAIMove(squares) on the hard strategy
CallGetAIMove ==
  /\ aiMove = -1
  /\ aiMove' = HardMove(squares)
  /\ squares' = HardMoveSquares(squares)
  /\ UNCHANGED <<boardVars, chaseVars, wordVars, snakeVars>>

NextBoard ==
  \/ \E index \in 0..8 : HumanClick(index)
  \/ AITimerFire
  \/ ResetGameClick
  \/ resetStats
  \/ \E mode \in {"human", "ai"} : SetGameMode(mode)
  \/ \E d \in {"easy", "medium", "hard"} : SetDifficulty(d)

\* The whole Board component driven through its user interface.
SpecBoard == Init /\ [][NextBoard]_vars

NextHard ==
  \/ \E index \in 0..8 : HumanPlaysX(index)
  \/ AITimerFire

\* One game against the hard AI in which the human plays X only.
SpecHard == InitHard /\ [][NextHard]_vars

\* getAIMove as a function, on every board it can be given.
SpecAI == InitSquares /\ [][CallGetAIMove]_vars

\* The Pacman component, from its start and from two late-game states.
InitChase ==
  /\ InitBoard
  /\ InitAI
  /\ InitHangmanFixed
  /\ InitSnake
  /\ (InitPacman \/ InitPacmanLate)

SpecPacman == InitChase /\ [][NextPacman]_vars

\* The Hangman component driven through its user interface.
InitWordGuess ==
  /\ InitBoard
  /\ InitAI
  /\ InitPacman
  /\ InitSnake
  /\ InitHangman

SpecHangman == InitWordGuess /\ [][NextHangman]_vars

\* The Snake component: interval callbacks and keys in any order.
SpecSnake == Init /\ [][NextSnake]_vars

(***************************************************************************)
(* Properties                                                              *)
(***************************************************************************)

\* C1: against the hard AI, from the empty board and with the human playing X
\* only, no reachable state records X as the winner (SpecHard).
C1_HardAINeverLoses == winner # "X"

\* a finished game of SpecHard that the AI won
C1_AIWon == winner = "O" /\ gameMode = "ai" /\ difficulty = "hard" /\ stats.losses = 1

\* C2: in AI mode, while it is O's turn and no result is recorded (the AI's
\* turn, its timer pending), a click of the human on any cell changes nothing.
C2_HumanCannotPlayForAI ==
  \A index \in 0..8 :
    gameMode = "ai" /\ currentPlayer = "O" /\ winner = null
      => handleClick(BoardState, BoardState, index) = BoardState

\* handleClick of the current render: on an occupied cell, or on any cell once
\* a winner or a draw is recorded, it leaves board, currentPlayer, winner,
\* winningLine and stats (and mode and difficulty) as they were.
C3_RejectedPlayChangesNothing ==
  \A index \in DOMAIN board :
    board[index] # null \/ winner # null
      => handleClick(BoardState, BoardState, index) = BoardState

\* a finished game with a free cell: both kinds of rejected click exist
C3_FinishedWithFreeCell ==
  /\ winner # null
  /\ StatsTotal = 1
  /\ \E index \in DOMAIN board : board[index] = null
  /\ \E index \in DOMAIN board : board[index] # null

\* C4: a play command with a cell index outside 0..8 changes nothing: the
\* board keeps its 9 cells and currentPlayer, winner, winningLine and stats stay.
C4_OutOfRangeRejected ==
  \A index \in 9..MaxIndex :
    /\ handleClick(BoardState, BoardState, index) = BoardState
    /\ DOMAIN handleClick(BoardState, BoardState, index).board = 0..8

\* C5: guessLetter(ch) changes nothing when ch is already guessed or when the
\* game is not being played.
C5_RepeatedGuessIsNoOp ==
  \A letter \in Letters :
    letter \in guessedLetters \/ gameStatus # "playing"
      => guessLetter(HangmanState, letter) = HangmanState

\* the empty cells where placing mark completes a line of three
CompletingCells(sq, mark) ==
  {i \in DOMAIN sq : sq[i] = null /\ checkWinner(SetAt(sq, i, mark))[1] = mark}

\* C6: on a board with O to move where exactly one empty cell completes an X
\* line and none completes an O line, the hard strategy returns that cell.
C6_HardBlocks ==
  aiMove # -1 /\ Cardinality(CompletingCells(squares, "X")) = 1
              /\ CompletingCells(squares, "O") = {}
    => aiMove \in CompletingCells(squares, "X")

\* the board [X,X,_, _,O,_, _,_,_], answered with cell 2
C6_BlocksTopRow ==
  /\ squares = [EmptyBoard EXCEPT ![0] = "X", ![1] = "X", ![4] = "O"]
  /\ aiMove = 2

\* C7: gameWon is set exactly when no dot is left.
C7_WonIffNoDots == gameWon <=> dots = {}

\* the last dot collected by a tick
C7_LastDotEaten == gameWon /\ dots = {} /\ pacmanTicks > 0 /\ ~pacmanGameOver

SharesCell == \E k \in DOMAIN ghosts : ghosts[k] = pacman

\* C8: gameOver is set exactly when pacman and some ghost are on the same cell,
\* in every reachable state and so after every tick.
C8_LostIffSharedCell == pacmanGameOver <=> SharesCell

\* a tick that moved a ghost onto pacman's cell
C8_Caught == pacmanGameOver /\ SharesCell /\ pacmanTicks > 0

\* C9: pacman and the ghosts are never on a wall cell, and stay on the grid.
C9_NeverOnWall ==
  /\ ~isWall(pacman)
  /\ \A k \in DOMAIN ghosts : ~isWall(ghosts[k])
  /\ \A p \in {pacman} \cup {ghosts[k] : k \in DOMAIN ghosts} :
       p.x \in 0..PACMAN_GRID_SIZE - 1 /\ p.y \in 0..PACMAN_GRID_SIZE - 1

\* one tick after the late-game start pacman is still at (7,13): it was sent
\* down, into the outer wall, and stayed
C9_StoppedByWall ==
  /\ pacmanTicks = 1
  /\ pacman = Pos(7, 13)
  /\ pacmanDirection = "down"
  /\ Cardinality(dots) <= 2
  /\ ghosts[3] # Pos(3, 13)

\* a step of the interval callback of Snake while the game is played (no other
\* step changes snake or sets gameOver while gameOver is false)
SnakeTickStep ==
  ~snakeGameOver /\ (snake' # snake \/ snakeGameOver' # snakeGameOver)

\* C10 as stated: a tick leaves the number of segments when the new head is not
\* on the food and adds one when it is.
C10_LengthFollowsFood ==
  [][SnakeTickStep =>
       Len(snake') = Len(snake)
                       + (IF NewHead(snake, snakeDirection) = food THEN 1 ELSE 0)]_vars

\* C10, amended: a tick whose new head is on a segment ends the game and leaves
\* the number of segments, wherever the food is; any other tick leaves it when
\* the new head is not on the food and adds one when it is; a step that changes
\* the number is such a tick or the reset.
C10_LengthFollowsFoodUnlessCollision ==
  [][/\ SnakeTickStep =>
          IF OnSnake(snake, NewHead(snake, snakeDirection))
          THEN Len(snake') = Len(snake) /\ snakeGameOver'
          ELSE Len(snake') = Len(snake)
                               + (IF NewHead(snake, snakeDirection) = food THEN 1 ELSE 0)
     /\ Len(snake') # Len(snake) =>
          \/ SnakeTickStep
          \/ snakeGameOver /\ snake' = INITIAL_SNAKE]_vars

\* the game ended by a tick whose new head was on the food and on the second
\* segment: two segments before and after
C10_DiedOnFood ==
  /\ snakeGameOver
  /\ Len(snake) = 2
  /\ snakeScore = 1
  /\ NewHead(snake, snakeDirection) = food
  /\ OnSnake(snake, food)

\* the cell one step from pos in direction dir on the torus of side GRID_SIZE
Wrapped(pos, dir) ==
  LET step(v) == IF v < 0 THEN GRID_SIZE - 1 ELSE IF v > GRID_SIZE - 1 THEN 0 ELSE v
  IN Pos(step(pos.x + dir.x), step(pos.y + dir.y))

OnGrid(pos) == pos.x \in 0..GRID_SIZE - 1 /\ pos.y \in 0..GRID_SIZE - 1

\* C11: a tick while playing that does not end the game puts the new head one
\* step from the old head in the current direction, re-entering at the opposite
\* edge; every segment and the food are always within 0..GRID_SIZE - 1.
C11_HeadWrapsOnGrid ==
  /\ [](OnGrid(food) /\ \A k \in DOMAIN snake : OnGrid(snake[k]))
  /\ [][SnakeTickStep /\ ~snakeGameOver' =>
          snake'[1] = Wrapped(snake[1], snakeDirection)]_vars

\* the head has left the right edge and re-entered at the left one, the
\* direction never changed
C11_ReenteredLeft ==
  /\ snake[1] = Pos(0, 10)
  /\ snakeDirection = INITIAL_DIRECTION
  /\ snakeScore = 0
  /\ ~snakeGameOver

\* C12: a guess of a letter that is new and not in the word, made while playing,
\* takes one from remainingTries and no other guess changes it; remainingTries
\* stays within 0..MAX_TRIES; the guess that brings it to 0 sets 'lost'.
C12_TriesFollowWrongGuesses ==
  /\ remainingTries \in 0..MAX_TRIES
  /\ \A letter \in Letters :
       LET after == guessLetter(HangmanState, letter)
           miss == /\ gameStatus = "playing"
                   /\ letter \notin guessedLetters
                   /\ letter \notin Chars(currentWord.word)
       IN /\ after.remainingTries = IF miss THEN remainingTries - 1 ELSE remainingTries
          /\ miss /\ after.remainingTries = 0 => after.gameStatus = "lost"

\* C13: the status is 'won' exactly when every letter of the word is guessed
\* and 'lost' exactly when no try is left; never both.
C13_StatusFollowsWordAndTries ==
  /\ gameStatus = "won" <=> \A k \in DOMAIN currentWord.word : currentWord.word[k] \in guessedLetters
  /\ gameStatus = "lost" <=> remainingTries = 0
  /\ ~(remainingTries = 0
         /\ \A k \in DOMAIN currentWord.word : currentWord.word[k] \in guessedLetters)

\* a word completed after two misses
C13_WonAfterMisses ==
  /\ gameStatus = "won"
  /\ remainingTries = MAX_TRIES - 2
  /\ Chars(currentWord.word) \subseteq guessedLetters
  /\ Cardinality(guessedLetters) = Cardinality(Chars(currentWord.word)) + 2

\* round(len * 10 * m * tries / MAX_TRIES), m being mNum / mDen: the integer
\* nearest to the quotient, a half taken upwards
RoundedWordScore(len, mNum, mDen, tries) ==
  CHOOSE k \in 0..len * 10 * mNum :
    /\ 2 * k * mDen * MAX_TRIES <= 2 * len * 10 * mNum * tries + mDen * MAX_TRIES
    /\ 2 * len * 10 * mNum * tries + mDen * MAX_TRIES < 2 * (k + 1) * mDen * MAX_TRIES

\* the multiplier of the current word as a fraction: easy 1, medium 3/2, hard 2
MultiplierNum ==
  IF currentWord.difficulty = "easy" THEN 1
  ELSE IF currentWord.difficulty = "medium" THEN 3 ELSE 4

MultiplierDen == IF currentWord.difficulty = "easy" THEN 1 ELSE 2

Opposite(dir) == Pos(0 - dir.x, 0 - dir.y)

\* C15: an arrow key for the exact opposite of the current direction leaves the
\* direction; any other arrow key sets it, and the next tick moves the head in
\* the direction that was set.
C15_DirectionSetUnlessOpposite ==
  \A key \in DOMAIN ArrowKeys :
    LET d == ArrowKeys[key]
        pressed == [SnakeState EXCEPT !.direction = setDirection(snakeDirection, d)]
    IN /\ pressed.direction = (IF d = Opposite(snakeDirection) THEN snakeDirection ELSE d)
       /\ \A newFood \in generateFood :
            LET ticked == moveSnake(pressed, newFood)
            IN ticked.snake # snake =>
                 ticked.snake[1] = Wrapped(snake[1], pressed.direction)

\* ArrowUp at the start, then one tick: the head went up
C15_TurnedUp ==
  /\ snake = <<Pos(10, 9)>>
  /\ snakeDirection = Pos(0, -1)
  /\ snakeScore = 0

\* some fixed line of sq holds three marks mark
HoldsLine(sq, mark) ==
  \E k \in DOMAIN WINNING_COMBINATIONS :
    \A j \in 1..3 : sq[WINNING_COMBINATIONS[k][j]] = mark

FreeCells(sq) == {i \in DOMAIN sq : sq[i] = null}

Largest(S) == CHOOSE v \in S : \A w \in S : w <= v
Smallest(S) == CHOOSE v \in S : \A w \in S : v <= w

RECURSIVE GameValue(_, _, _)
\* the exhaustive minimax value of sq at search depth d: 10 - d when O holds a
\* line, d - 10 when X does, 0 on a full board; else the largest value over
\* O's plays on O's turn, the smallest over X's plays on X's turn
GameValue(sq, d, oToMove) ==
  IF HoldsLine(sq, "O") THEN 10 - d
  ELSE IF HoldsLine(sq, "X") THEN d - 10
  ELSE IF FreeCells(sq) = {} THEN 0
  ELSE IF oToMove
       THEN Largest({GameValue([sq EXCEPT ![i] = "O"], d + 1, FALSE) : i \in FreeCells(sq)})
       ELSE Smallest({GameValue([sq EXCEPT ![i] = "X"], d + 1, TRUE) : i \in FreeCells(sq)})

\* the value of O's play on cell i
PlayValue(sq, i) == GameValue([sq EXCEPT ![i] = "O"], 0, FALSE)

\* C16: on every board without a result and with O to move, the hard strategy
\* returns the lowest free cell among those whose play has the largest
\* exhaustive minimax value.
C16_FirstBestMove ==
  aiMove # -1 =>
    LET best == Largest({PlayValue(squares, i) : i \in FreeCells(squares)})
    IN aiMove = Smallest({i \in FreeCells(squares) : PlayValue(squares, i) = best})

\* X in the centre: the four corners are the best answers, cell 0 is returned
C16_CornerAfterCentre ==
  /\ squares = [EmptyBoard EXCEPT ![4] = "X"]
  /\ aiMove = 0

\* C17: 'won' by a mark is recorded exactly when a fixed line holds three of
\* that mark, 'Draw' exactly when the nine cells are filled and no line holds
\* three equal marks, and nothing is recorded otherwise; a ninth mark that
\* completes a line is a win.
C17_StatusFollowsBoard ==
  /\ \A mark \in {"X", "O"} : winner = mark <=> HoldsLine(board, mark)
  /\ winner = "Draw" <=>
       /\ FreeCells(board) = {}
       /\ ~HoldsLine(board, "X")
       /\ ~HoldsLine(board, "O")

ZeroStats == [wins |-> 0, losses |-> 0, draws |-> 0]

\* a step that applies a play: it writes the board (a reset leaves it empty) or
\* counts a result (resetStats leaves the stats at zero)
PlayStep ==
  \/ board' # board /\ board' # EmptyBoard
  \/ stats' # stats /\ stats' # ZeroStats

\* C18: the play that ends a game adds 1 to exactly one of wins (X), losses (O)
\* and draws, records the completed line (none for a draw) and leaves
\* currentPlayer; a play that does not end the game leaves the stats and swaps
\* currentPlayer; the stats change at most once in a game.
C18_StatsOncePerGame ==
  [][PlayStep =>
       /\ winner = null
       /\ IF winner' # null
          THEN /\ stats' = [stats EXCEPT
                              ![IF winner' = "X" THEN "wins"
                                ELSE IF winner' = "O" THEN "losses" ELSE "draws"] = @ + 1]
               /\ currentPlayer' = currentPlayer
               /\ IF winner' = "Draw" THEN winningLine' = << >>
                  ELSE /\ winningLine' \in {WINNING_COMBINATIONS[k] :
                                              k \in DOMAIN WINNING_COMBINATIONS}
                       /\ \A j \in 1..3 : board'[winningLine'[j]] = winner'
          ELSE /\ stats' = stats
               /\ currentPlayer' # currentPlayer]_vars

\* C3: no play is applied once a winner or a draw is recorded, and a play that
\* is applied leaves every occupied cell as it was.
C3_NoPlayOnOccupiedOrFinished ==
  [][/\ winner # null => ~PlayStep
     /\ PlayStep => \A index \in DOMAIN board :
                      board[index] # null => board'[index] = board[index]]_vars

\* C19: "Start New Game", a change of mode and a change of difficulty leave the
\* nine cells empty, X to move, no result and no winning line, and leave the
\* stats; "Reset Stats" sets the three counters to 0 and leaves the cells,
\* currentPlayer, winner, winningLine, mode and difficulty.
C19_ResetFrames ==
  [][/\ (\/ ResetGameClick
         \/ \E mode \in {"human", "ai"} : SetGameMode(mode)
         \/ \E d \in {"easy", "medium", "hard"} : SetDifficulty(d))
          => /\ board' = EmptyBoard
             /\ currentPlayer' = "X"
             /\ winner' = null
             /\ winningLine' = << >>
             /\ stats' = stats
     /\ resetStats
          => /\ stats' = ZeroStats
             /\ UNCHANGED <<board, currentPlayer, winner, winningLine, gameMode, difficulty>>]_vars

\* a game was decided and counted, then the board was reset: the count stayed
C19_NewGameKeepsStats ==
  /\ board = EmptyBoard
  /\ currentPlayer = "X"
  /\ winner = null
  /\ winningLine = << >>
  /\ stats.wins = 1

\* the state reset() is to leave: pacman and the ghosts on their first cells,
\* no score, neither flag set, a dot on every cell that is not a wall
FreshChase(st) ==
  /\ st.pacman = INITIAL_PACMAN
  /\ st.ghosts = INITIAL_GHOSTS
  /\ st.score = 0
  /\ ~st.gameOver
  /\ ~st.gameWon
  /\ st.dots = {Pos(px, py) : px \in 0..PACMAN_GRID_SIZE - 1,
                              py \in 0..PACMAN_GRID_SIZE - 1} \ WALLS

\* C20: at the start of a game, before the first tick, and right after "Play
\* Again", pacman is at (7,11), the ghosts are in their corners, the score is
\* 0, the game is being played and every cell that is no wall holds a dot.
C20_FreshAfterReset ==
  /\ [](pacmanTicks = 0 /\ pacman = INITIAL_PACMAN => FreshChase(PacmanState))
  /\ [][PacmanPlayAgain => FreshChase(PacmanState)']_vars

\* C21: a tick while playing whose new head is on a segment, the last one
\* included, sets gameOver and leaves the segments, the direction, the food and
\* the score; once gameOver is set a tick changes nothing.
C21_CollisionEndsGame ==
  /\ [](snakeGameOver =>
          \A newFood \in generateFood : moveSnake(SnakeState, newFood) = SnakeState)
  /\ [][/\ (SnakeTickStep /\ OnSnake(snake, NewHead(snake, snakeDirection)))
             => /\ snakeGameOver'
                /\ UNCHANGED <<snake, snakeDirection, food, snakeScore>>
        /\ snakeGameOver' /\ ~snakeGameOver
             => OnSnake(snake, NewHead(snake, snakeDirection))]_vars

\* the game ended with the head turned back on the last of two segments, away
\* from the food
C21_DiedOnTail ==
  /\ snakeGameOver
  /\ Len(snake) = 2
  /\ NewHead(snake, snakeDirection) = snake[Len(snake)]
  /\ ~OnSnake(snake, food)

\* C22: while the game is played the segments are on pairwise distinct cells.
C22_SegmentsDistinct ==
  ~snakeGameOver =>
    \A j, k \in DOMAIN snake : j # k => snake[j] # snake[k]

\* two segments, the game going on after a turn
C22_TwoSegmentsTurned ==
  /\ ~snakeGameOver
  /\ Len(snake) = 2
  /\ snake[1].x = snake[2].x
  /\ snake[1].y # snake[2].y

\* C23: outside "Play Again" a step either leaves the dots and the score as
\* they are, or removes exactly the dot on pacman's cell and adds 10 to the
\* score; the score is 10 times the number of dots removed from the full set.
C23_DotsShrinkScoreCounts ==
  /\ [](/\ dots \subseteq initializeDots
        /\ pacmanScore = 10 * (Cardinality(initializeDots) - Cardinality(dots)))
  /\ [][~PacmanPlayAgain =>
          \/ /\ dots' = dots
             /\ pacmanScore' = pacmanScore
          \/ /\ pacman' \in dots
             /\ dots' = dots \ {pacman'}
             /\ pacmanScore' = pacmanScore + 10]_vars

\* from the start, two ticks each took a dot
C23_TwoDotsTaken ==
  /\ pacmanTicks = 2
  /\ pacmanScore = 30
  /\ Cardinality(initializeDots \ dots) = 3
  /\ pacman \notin dots

\* C24: once gameWon or gameOver is set, pacman, the ghosts, the dots, the
\* score and the two flags stay as they are under every step but "Play Again".
C24_TerminalFrozen ==
  [][(pacmanGameOver \/ gameWon) /\ ~PacmanPlayAgain =>
       UNCHANGED <<pacman, ghosts, dots, pacmanScore, pacmanGameOver, gameWon>>]_vars

\* the first tick won the game, then ArrowUp was pressed while the tick
\* counter still allows a tick
C24_KeyAfterWin ==
  /\ gameWon
  /\ ~pacmanGameOver
  /\ pacmanDirection = "up"
  /\ pacman = Pos(6, 13)
  /\ pacmanTicks < MaxPacmanTicks

\* C25: initializeGame, applied to any state (a game in progress included),
\* gives no guessed letter, MAX_TRIES tries, status playing and a word of the
\* category, and keeps score, highScore and streak; a "Play Again" or category
\* step does exactly that for the category it ends in; "Reset Stats" zeroes
\* score, highScore and streak and keeps the word, the guessed letters, the
\* tries and the status.
C25_ResetFrames ==
  /\ [](\A new \in initializeGame(HangmanState) :
          /\ new.guessedLetters = {}
          /\ new.remainingTries = MAX_TRIES
          /\ new.gameStatus = "playing"
          /\ \E k \in DOMAIN WORD_LIST[category] : new.currentWord = WORD_LIST[category][k]
          /\ new.score = hangmanScore
          /\ new.highScore = highScore
          /\ new.streak = streak)
  /\ [][/\ (hangmanRounds' # hangmanRounds) =>
              /\ guessedLetters' = {}
              /\ remainingTries' = MAX_TRIES
              /\ gameStatus' = "playing"
              /\ \E k \in DOMAIN WORD_LIST[category'] :
                   currentWord' = WORD_LIST[category'][k]
              /\ UNCHANGED <<hangmanScore, highScore, streak>>
        /\ (hangmanRounds' = hangmanRounds /\ guessedLetters' = guessedLetters) =>
              /\ hangmanScore' = 0
              /\ highScore' = 0
              /\ streak' = 0
              /\ UNCHANGED <<category, currentWord, remainingTries, gameStatus>>]_vars

\* a word was won, then another category was selected: the new game is fresh
\* and the score and the streak of the win are kept
C25_CategoryAfterWin ==
  /\ category = "movies"
  /\ gameStatus = "playing"
  /\ guessedLetters = {}
  /\ remainingTries = MAX_TRIES
  /\ hangmanScore > 0
  /\ streak = 1

\* C26: a tick of a snake of two or more segments never puts the new head on
\* the second segment, that is, never uses the direction opposite to the one
\* of the tick before.  (Does not hold: handleKeyPress compares a key with
\* the direction state, which an earlier key of the same interval has
\* already changed.)
C26_NoStepBack ==
  [][(SnakeTickStep /\ Len(snake) >= 2)
       => NewHead(snake, snakeDirection) # snake[2]]_vars

\* C27: gameWon and gameOver are never both set.  (Does not hold: the effect
\* runs the dot test and the ghost test one after the other on the same
\* render.)
C27_WonXorLost == ~(gameWon /\ pacmanGameOver)

\* C28: a call of getAIMove (hard strategy) on a board without a result and
\* with O to move returns an empty cell of that board, returns the lowest cell
\* that completes an O line when there is one, and leaves the array it was
\* given as it was.
C28_TakesWinKeepsBoard ==
  [][aiMove' # aiMove =>
       /\ squares' = squares
       /\ aiMove' \in FreeCells(squares)
       /\ CompletingCells(squares, "O") # {}
            => aiMove' = Smallest(CompletingCells(squares, "O"))]_vars

\* [O,O,_, O,X,X, _,X,X]: cells 2 and 6 both complete an O line (and 2 an X
\* line); cell 2 is returned and the board is as given
C28_FirstOfTwoWins ==
  /\ squares = [i \in 0..8 |-> IF i \in {0, 1, 3} THEN "O"
                               ELSE IF i \in {2, 6} THEN null ELSE "X"]
  /\ CompletingCells(squares, "O") = {2, 6}
  /\ aiMove = 2

====
